---- MODULE Spec2Model ----
(***************************************************************************)
(* Model of the interview coach: the WebSocket session handler and the     *)
(* transcript scorer of backend/server.js, and the gaze classifier, the    *)
(* recording controls and the speech recognition handlers of the React     *)
(* client.                                                                 *)
(*                                                                         *)
(* Strings are sequences of tokens.  A token is a single space " ", a      *)
(* punctuation mark "," (neither a word character nor whitespace) or a     *)
(* word.  Two adjacent word tokens form one longer word, which is in no    *)
(* lexicon.  Times are integer milliseconds; the connection opens at 0.    *)
(* Arithmetic is exact (no floating-point rounding error).                 *)
(***************************************************************************)
EXTENDS Integers, Sequences, FiniteSets, TLC

VARIABLES sessionData, now, msg, out, phase, fragments,
          analyzeCall, analyzeResult, gazeCall, gazeResult,
          conns, heard, last,
          client, wire, tickLog, speech, spoken

vars == <<sessionData, now, msg, out, phase, fragments,
          analyzeCall, analyzeResult, gazeCall, gazeResult,
          conns, heard, last, client, wire, tickLog, speech, spoken>>

serverVars == <<sessionData, now, msg, out, phase, fragments>>
analyzeVars == <<analyzeCall, analyzeResult>>
gazeVars == <<gazeCall, gazeResult>>
connVars == <<conns, heard, last>>
clientVars == <<client, wire, tickLog, speech, spoken>>

(***************************************************************************)
(* Bounds of the model.                                                    *)
(***************************************************************************)
MaxFrags == 2
MaxScores == 2
MaxFaces == 1
MaxTime == 1500
MaxLen == 3

(***************************************************************************)
(* JavaScript values that are not ordinary numbers.                        *)
(***************************************************************************)
Undefined == -3
NaN == -2
Null == -4
Infinity == 1000000000

(***************************************************************************)
(* Strings.                                                                *)
(***************************************************************************)
IsSpace(c) == c = " "

IsWordTok(c) == c \notin {" ", ","}

\* String.prototype.toLowerCase on one token (the 'i' flag of the regexes)
Lower(c) ==
  CASE c = "Um" -> "um"
    [] c = "LED" -> "led"
    [] OTHER -> c

MatchesAtNoBoundary(s, p, i) ==
  /\ i + Len(p) - 1 <= Len(s)
  /\ \A k \in 1..Len(p) : Lower(s[i + k - 1]) = p[k]

\* the regex \bp\b matches at position i of s (case-insensitive)
MatchesAt(s, p, i) ==
  /\ i + Len(p) - 1 <= Len(s)
  /\ \A k \in 1..Len(p) : Lower(s[i + k - 1]) = p[k]
  /\ (i = 1 \/ ~IsWordTok(s[i - 1]))
  /\ (i + Len(p) > Len(s) \/ ~IsWordTok(s[i + Len(p)]))

\* (transcript.match(new RegExp(`\\b${word}\\b`, 'gi')) || []).length
MatchCount(s, p) == Cardinality({i \in 1..Len(s) : MatchesAt(s, p, i)})

\* lexicon.forEach(word => { count += matches.length })
RECURSIVE CountLexicon(_, _, _)
CountLexicon(s, lexicon, k) ==
  IF k > Len(lexicon) THEN 0
  ELSE MatchCount(s, lexicon[k]) + CountLexicon(s, lexicon, k + 1)

SplitLengthRuns(s) ==
  Cardinality({i \in 1..Len(s) :
                 IsSpace(s[i]) /\ (i = 1 \/ ~IsSpace(s[i - 1]))})

SplitLengthNoEmpties(s) ==
  Cardinality({i \in 1..Len(s) :
                 ~IsSpace(s[i]) /\ (i = 1 \/ IsSpace(s[i - 1]))})

\* transcript.split(/\s+/).length: one more than the number of maximal
\* whitespace runs (leading and trailing empty strings are kept)
SplitLength(s) ==
  Cardinality({i \in 1..Len(s) :
                 IsSpace(s[i]) /\ (i = 1 \/ ~IsSpace(s[i - 1]))}) + 1

\* String.prototype.trim
RECURSIVE TrimStart(_)
TrimStart(s) ==
  IF s # <<>> /\ IsSpace(Head(s)) THEN TrimStart(Tail(s)) ELSE s

RECURSIVE TrimEnd(_)
TrimEnd(s) ==
  IF s # <<>> /\ IsSpace(s[Len(s)]) THEN TrimEnd(SubSeq(s, 1, Len(s) - 1))
  ELSE s

Trim(s) == TrimEnd(TrimStart(s))

\* Math.round(n / d) for n >= 0 and d > 0: floor(n/d + 1/2)
RoundDiv(n, d) == (2 * n + d) \div (2 * d)

\* JSON.stringify of a number: NaN and Infinity become null
JsonNumber(n) == IF n \in {NaN, Infinity} THEN Null ELSE n

(***************************************************************************)
(* analyzeTranscript (backend/server.js).  duration is in milliseconds     *)
(* (the code's duration is this number divided by 1000).                   *)
(***************************************************************************)
fillerWords ==
  << <<"um">>, <<"uh">>, <<"like">>, <<"you", " ", "know">>, <<"basically">>,
     <<"actually">>, <<"literally">> >>

actionVerbs ==
  << <<"achieved">>, <<"led">>, <<"managed">>, <<"created">>, <<"delivered">>,
     <<"improved">>, <<"increased">>, <<"reduced">>, <<"solved">>,
     <<"implemented">> >>

Suggestion(id, n) == [id |-> id, n |-> n]

FillerDelta(fillerCount) ==
  IF fillerCount = 0 THEN 2 ELSE IF fillerCount <= 2 THEN 1 ELSE 0

FillerSuggestions(fillerCount) ==
  IF fillerCount = 0 THEN <<Suggestion("NoFillerWords", 0)>>
  ELSE IF fillerCount <= 2 THEN <<Suggestion("ReduceFillerWords", fillerCount)>>
  ELSE <<Suggestion("TooManyFillerWords", fillerCount)>>

\* Math.round(wordCount / (duration / 60)); a division by 0 gives Infinity
WordsPerMinute(wordCount, duration) ==
  IF duration = 0 THEN Infinity ELSE RoundDiv(wordCount * 60000, duration)

PaceDelta(wpm) == IF wpm >= 120 /\ wpm <= 150 THEN 1 ELSE 0

PaceSuggestionsAlways(wpm) ==
  IF wpm >= 120 /\ wpm <= 150 THEN <<Suggestion("PerfectPace", wpm)>>
  ELSE IF wpm < 120 THEN <<Suggestion("TooSlowly", wpm)>>
  ELSE <<Suggestion("TooFast", wpm)>>

PaceSuggestions(wpm) ==
  IF wpm >= 120 /\ wpm <= 150 THEN <<Suggestion("PerfectPace", wpm)>>
  ELSE IF wpm < 80 THEN <<Suggestion("TooSlowly", wpm)>>
  ELSE IF wpm > 180 THEN <<Suggestion("TooFast", wpm)>>
  ELSE <<>>

\* eyeContactScore >= n, false when eyeContactScore is NaN
AtLeast(x, n) == x # NaN /\ x >= n

GazeDeltaStrict(eyeContactScore) ==
  IF AtLeast(eyeContactScore, 81) THEN 2
  ELSE IF AtLeast(eyeContactScore, 60) THEN 1 ELSE 0

GazeDelta(eyeContactScore) ==
  IF AtLeast(eyeContactScore, 80) THEN 2
  ELSE IF AtLeast(eyeContactScore, 60) THEN 1 ELSE 0

GazeSuggestions(eyeContactScore) ==
  IF AtLeast(eyeContactScore, 80) THEN <<Suggestion("ExcellentEyeContact", 0)>>
  ELSE IF AtLeast(eyeContactScore, 60)
    THEN <<Suggestion("MoreEyeContact", eyeContactScore)>>
  ELSE <<Suggestion("PoorEyeContact", eyeContactScore)>>

LengthDeltaPenalty(wordCount) ==
  IF wordCount < 50 THEN 0 - 1 ELSE IF wordCount > 500 THEN 0 - 1 ELSE 1

LengthDelta(wordCount) ==
  IF wordCount < 50 THEN 0 ELSE IF wordCount > 500 THEN 0 ELSE 1

LengthSuggestions(wordCount) ==
  IF wordCount < 50 THEN <<Suggestion("TooShort", 0)>>
  ELSE IF wordCount > 500 THEN <<Suggestion("TooLong", 0)>>
  ELSE <<Suggestion("GoodLength", 0)>>

VerbDelta(actionVerbCount) ==
  IF actionVerbCount >= 3 THEN 2 ELSE IF actionVerbCount > 0 THEN 1 ELSE 0

VerbSuggestions(actionVerbCount) ==
  IF actionVerbCount >= 3 THEN <<Suggestion("GreatActionVerbs", actionVerbCount)>>
  ELSE IF actionVerbCount > 0
    THEN <<Suggestion("MoreActionVerbs", actionVerbCount)>>
  ELSE <<Suggestion("IncludeActionVerbs", 0)>>

Min(a, b) == IF a <= b THEN a ELSE b
Max(a, b) == IF a >= b THEN a ELSE b

ClampScoreNoCeiling(score) == Max(1, score)

\* score = Math.min(10, Math.max(1, score))
ClampScore(score) == Min(10, Max(1, score))

RECURSIVE DedupReversed(_, _)
DedupReversed(seq, seen) ==
  IF seq = <<>> THEN <<>>
  ELSE IF Head(seq) \in seen THEN DedupReversed(Tail(seq), seen)
  ELSE DedupReversed(Tail(seq), seen \cup {Head(seq)}) \o <<Head(seq)>>

\* [...new Set(suggestions)]: the first occurrence of each string, in order
RECURSIVE Dedup(_, _)
Dedup(seq, seen) ==
  IF seq = <<>> THEN <<>>
  ELSE IF Head(seq) \in seen THEN Dedup(Tail(seq), seen)
  ELSE <<Head(seq)>> \o Dedup(Tail(seq), seen \cup {Head(seq)})

analyzeTranscript(transcript, duration, eyeContactScore, facesDetected) ==
  LET fillerCount == CountLexicon(transcript, fillerWords, 1)
      wordCount == SplitLength(transcript)
      wpm == WordsPerMinute(wordCount, duration)
      actionVerbCount == CountLexicon(transcript, actionVerbs, 1)
      score == 6 + FillerDelta(fillerCount) + PaceDelta(wpm)
                 + GazeDelta(eyeContactScore) + LengthDelta(wordCount)
                 + VerbDelta(actionVerbCount)
      suggestions == FillerSuggestions(fillerCount) \o PaceSuggestions(wpm)
                       \o GazeSuggestions(eyeContactScore)
                       \o LengthSuggestions(wordCount)
                       \o VerbSuggestions(actionVerbCount)
  IN [score |-> ClampScore(score),
      suggestions |-> Dedup(suggestions, {}),
      metrics |-> [fillerWords |-> fillerCount,
                   wordsPerMinute |-> wpm,
                   totalWords |-> wordCount,
                   eyeContactScore |-> eyeContactScore,
                   facesDetected |-> facesDetected,
                   actionVerbs |-> actionVerbCount],
      analysis |-> [words |-> wordCount,
                    minutesTenths |-> RoundDiv(duration, 6000),
                    wpm |-> wpm,
                    eyeContact |-> eyeContactScore,
                    fillerWords |-> fillerCount]]

(***************************************************************************)
(* Inbound messages: the text handed to JSON.parse and what it parses to.  *)
(***************************************************************************)
Message(json, type, tKind, transcript, score) ==
  [json |-> json, type |-> type, tKind |-> tKind, transcript |-> transcript,
   score |-> score]

TranscriptMsg(f) == Message("object", "transcript", "string", f, Undefined)
InterimMsg(f) == Message("object", "interim_transcript", "string", f, Undefined)
EyeContactMsg(n) == Message("object", "eye_contact", "undefined", <<>>, n)
FaceDetectedMsg == Message("object", "face_detected", "undefined", <<>>, Undefined)
StartMsg == Message("object", "start", "undefined", <<>>, Undefined)
StopMsg == Message("object", "stop", "undefined", <<>>, Undefined)

\* malformed messages
BadJsonMsg == Message("undecodable", "none", "undefined", <<>>, Undefined)
UnknownTypeMsg == Message("object", "bogus", "undefined", <<>>, Undefined)
TranscriptNoTextMsg == Message("object", "transcript", "undefined", <<>>, Undefined)
TranscriptNumberMsg == Message("object", "transcript", "number", <<>>, Undefined)
EyeContactNoScoreMsg == EyeContactMsg(Undefined)

NoMsg == Message("none", "none", "undefined", <<>>, Undefined)

Fragments == { <<>>, <<"um">>, <<"led", ",", " ", "Um">> }

GazeScores == {75, 90}

WellFormed ==
  {TranscriptMsg(f) : f \in Fragments} \cup {InterimMsg(<<"um">>)}
    \cup {EyeContactMsg(n) : n \in GazeScores}
    \cup {FaceDetectedMsg, StartMsg, StopMsg}

Malformed ==
  {BadJsonMsg, UnknownTypeMsg, TranscriptNoTextMsg, TranscriptNumberMsg,
   EyeContactNoScoreMsg}

Messages == WellFormed \cup Malformed

(***************************************************************************)
(* The connection handler (backend/server.js, wss.on('connection')).       *)
(***************************************************************************)
NewSession(t) ==
  [transcript |-> <<>>, startTime |-> t, eyeContactScores |-> <<>>,
   facesDetected |-> 0]

\* JSON.parse(message), data.type or data.transcript.substring(...) throws
Throws(m) ==
  \/ m.json = "undecodable"
  \/ m.json = "object" /\ m.type = "transcript" /\ m.tKind # "string"

ErrorMessage(m) ==
  [type |-> "error",
   message |-> IF m.json = "undecodable" THEN "SyntaxError" ELSE "TypeError"]

\* eyeContactScores.reduce((a, b) => a + b, 0)
RECURSIVE Reduce(_, _)
Reduce(scores, a) ==
  IF scores = <<>> THEN a
  ELSE Reduce(Tail(scores),
              IF a = NaN \/ Head(scores) = Undefined THEN NaN
              ELSE a + Head(scores))

AvgEyeContactFloor(scores) ==
  IF Len(scores) > 0
    THEN IF Reduce(scores, 0) = NaN THEN NaN
         ELSE Reduce(scores, 0) \div Len(scores)
  ELSE 0

AvgEyeContact(scores) ==
  IF Len(scores) > 0
    THEN IF Reduce(scores, 0) = NaN THEN NaN
         ELSE RoundDiv(Reduce(scores, 0), Len(scores))
  ELSE 0

\* the arguments of the stop branch's call of analyzeTranscript at time t
StopCall(sd, t) ==
  [transcript |-> sd.transcript,
   duration |-> t - sd.startTime,
   eyeContactScore |-> AvgEyeContact(sd.eyeContactScores),
   facesDetected |-> sd.facesDetected]

Analyze(call) ==
  analyzeTranscript(call.transcript, call.duration, call.eyeContactScore,
                    call.facesDetected)

\* the final_analysis message, as JSON.stringify writes it
FinalAnalysis(sd, analysis) ==
  [type |-> "final_analysis",
   transcript |-> Trim(sd.transcript),
   score |-> analysis.score,
   suggestions |-> analysis.suggestions,
   metrics |-> [analysis.metrics EXCEPT
                  !.wordsPerMinute = JsonNumber(@),
                  !.eyeContactScore = JsonNumber(@)],
   analysis |-> analysis.analysis]

StatusMessage == [type |-> "status", message |-> "Recording started"]

SessionAfterKeepScores(sd, m, t) ==
  IF Throws(m) THEN sd
  ELSE IF m.type = "transcript"
    THEN [sd EXCEPT !.transcript = @ \o <<" ">> \o m.transcript]
  ELSE IF m.type = "eye_contact"
    THEN [sd EXCEPT !.eyeContactScores = Append(@, m.score)]
  ELSE IF m.type = "face_detected"
    THEN [sd EXCEPT !.facesDetected = @ + 1]
  ELSE IF m.type = "start"
    THEN [NewSession(t) EXCEPT !.eyeContactScores = sd.eyeContactScores]
  ELSE sd

SessionAfterPrepend(sd, m, t) ==
  IF Throws(m) THEN sd
  ELSE IF m.type = "transcript"
    THEN [sd EXCEPT !.transcript = <<" ">> \o m.transcript \o @]
  ELSE IF m.type = "eye_contact"
    THEN [sd EXCEPT !.eyeContactScores = Append(@, m.score)]
  ELSE IF m.type = "face_detected"
    THEN [sd EXCEPT !.facesDetected = @ + 1]
  ELSE IF m.type = "start" THEN NewSession(t)
  ELSE sd

SessionAfterInterimCounted(sd, m, t) ==
  IF Throws(m) THEN sd
  ELSE IF m.type \in {"transcript", "interim_transcript"}
    THEN [sd EXCEPT !.transcript = @ \o <<" ">> \o m.transcript]
  ELSE IF m.type = "eye_contact"
    THEN [sd EXCEPT !.eyeContactScores = Append(@, m.score)]
  ELSE IF m.type = "face_detected"
    THEN [sd EXCEPT !.facesDetected = @ + 1]
  ELSE IF m.type = "start" THEN NewSession(t)
  ELSE sd

SessionAfterStopResets(sd, m, t) ==
  IF Throws(m) THEN sd
  ELSE IF m.type = "transcript"
    THEN [sd EXCEPT !.transcript = @ \o <<" ">> \o m.transcript]
  ELSE IF m.type = "eye_contact"
    THEN [sd EXCEPT !.eyeContactScores = Append(@, m.score)]
  ELSE IF m.type = "face_detected"
    THEN [sd EXCEPT !.facesDetected = @ + 1]
  ELSE IF m.type \in {"start", "stop"} THEN NewSession(t)
  ELSE sd

SessionAfterTranscriptDropsScores(sd, m, t) ==
  IF Throws(m) THEN sd
  ELSE IF m.type = "transcript"
    THEN [NewSession(sd.startTime) EXCEPT
            !.transcript = sd.transcript \o <<" ">> \o m.transcript]
  ELSE IF m.type = "eye_contact"
    THEN [sd EXCEPT !.eyeContactScores = Append(@, m.score)]
  ELSE IF m.type = "face_detected"
    THEN [sd EXCEPT !.facesDetected = @ + 1]
  ELSE IF m.type = "start" THEN NewSession(t)
  ELSE sd

\* the session data after the handler has run on m at time t
SessionAfter(sd, m, t) ==
  IF Throws(m) THEN sd
  ELSE IF m.type = "transcript"
    THEN [sd EXCEPT !.transcript = @ \o <<" ">> \o m.transcript]
  ELSE IF m.type = "eye_contact"
    THEN [sd EXCEPT !.eyeContactScores = Append(@, m.score)]
  ELSE IF m.type = "face_detected"
    THEN [sd EXCEPT !.facesDetected = @ + 1]
  ELSE IF m.type = "start" THEN NewSession(t)
  ELSE sd

\* the messages the handler sends while it runs on m at time t
SentBy(sd, m, t) ==
  IF Throws(m) THEN <<ErrorMessage(m)>>
  ELSE IF m.type = "start" THEN <<StatusMessage>>
  ELSE IF m.type = "stop" THEN <<FinalAnalysis(sd, Analyze(StopCall(sd, t)))>>
  ELSE <<>>

\* the call of analyzeTranscript the handler makes while it runs on m
CallsBy(sd, m, t) ==
  IF ~Throws(m) /\ m.type = "stop" THEN <<StopCall(sd, t)>> ELSE <<>>

ResultsBy(sd, m, t) ==
  IF ~Throws(m) /\ m.type = "stop" THEN <<Analyze(StopCall(sd, t))>> ELSE <<>>

\* where the connection is in its start/stop cycle: "New" until the first
\* start or stop, "Active" from a start to the next stop, "Stopped" from a
\* stop to the next start (history variable; the code keeps no such flag)
PhaseAfter(p, m) ==
  IF Throws(m) THEN p
  ELSE IF m.type = "start" THEN "Active"
  ELSE IF m.type = "stop" THEN "Stopped"
  ELSE p

\* the fragments of the transcript messages received since the last start
\* (history variable)
FragmentsAfter(fs, m) ==
  IF m.json = "object" /\ m.type = "transcript" /\ m.tKind = "string"
    THEN Append(fs, m.transcript)
  ELSE IF m.json = "object" /\ m.type = "start" THEN <<>>
  ELSE fs

\* the environment sends at most MaxFrags fragments, MaxScores gaze samples
\* and MaxFaces face notifications per session
WithinBounds(m) ==
  /\ m.type = "transcript" /\ ~Throws(m) => Len(fragments) < MaxFrags
  /\ m.type = "eye_contact" => Len(sessionData.eyeContactScores) < MaxScores
  /\ m.type = "face_detected" => sessionData.facesDetected < MaxFaces

\* two connections, each with the sessionData of its own closure, both
\* opened at time 0; heard[c] is what connection c has been sent since its
\* last start and last the latest handler run (history variables)
Conns == {"a", "b"}

NothingHeard == [fragments |-> <<>>, scores |-> <<>>, faces |-> 0]

InitConns ==
  /\ conns = [c \in Conns |-> NewSession(0)]
  /\ heard = [c \in Conns |-> NothingHeard]
  /\ last = [conn |-> "a", msg |-> NoMsg, out |-> <<>>]

\* the recognition object: created tells whether setupSpeechRecognition has
\* made it, onendIsRecording is the isRecording its onend handler closed
\* over, state is where the recognizer is between start() and its end event,
\* isListening the module's flag and lastSpeech whether lastSpeechTime is set
NoRecognition ==
  [created |-> FALSE, onendIsRecording |-> FALSE, state |-> "idle",
   isListening |-> FALSE, lastSpeech |-> FALSE]

\* the client before a recording: not recording, no detection in progress,
\* nothing on the socket, no recognition object; spoken is the final
\* fragments the recognizer has produced since the latest recording started
\* (history variable)
InitClient ==
  /\ client = [isRecording |-> FALSE, detecting |-> 0]
  /\ wire = <<>>
  /\ tickLog = <<>>
  /\ speech = NoRecognition
  /\ spoken = <<>>

Init ==
  /\ sessionData = NewSession(0)
  /\ now = 0
  /\ msg = NoMsg
  /\ out = <<>>
  /\ phase = "New"
  /\ fragments = <<>>
  /\ analyzeCall = <<>>
  /\ analyzeResult = <<>>
  /\ gazeCall = <<>>
  /\ gazeResult = <<>>
  /\ InitConns
  /\ InitClient

\* ws.on('message', ...) runs on m
OnMessage(m) ==
  /\ WithinBounds(m)
  /\ msg' = m
  /\ sessionData' = SessionAfter(sessionData, m, now)
  /\ out' = SentBy(sessionData, m, now)
  /\ phase' = PhaseAfter(phase, m)
  /\ fragments' = FragmentsAfter(fragments, m)
  /\ analyzeCall' = CallsBy(sessionData, m, now)
  /\ analyzeResult' = ResultsBy(sessionData, m, now)
  /\ UNCHANGED <<now, gazeVars, connVars, clientVars>>

ClockSteps == {1500}

\* Date.now() advances
Tick ==
  /\ \E d \in ClockSteps : now + d <= MaxTime /\ now' = now + d
  /\ UNCHANGED <<sessionData, msg, out, phase, fragments, analyzeVars, gazeVars,
                 connVars, clientVars>>

Next ==
  \/ \E m \in Messages : OnMessage(m)
  \/ Tick

Spec == Init /\ [][Next]_vars

(***************************************************************************)
(* analyzeTranscript on its own: the inputs are drawn in the initial state *)
(* and the function is applied to them.                                    *)
(***************************************************************************)
Tokens == {" ", ",", "um", "led", "you", "know"}

ShortTranscripts ==
  UNION {[1..n -> Tokens] : n \in 0..MaxLen}
    \cup { <<"Um", " ", "LED">>, <<"hello", "um", " ", "umled">> }

\* n times the word w, separated by single spaces
LongTranscript(n, w) == [i \in 1..(2 * n - 1) |-> IF i % 2 = 1 THEN w ELSE " "]

LongTranscripts ==
  {LongTranscript(n, w) : n \in {49, 50, 500, 501}, w \in {"hello", "um", "led"}}

Durations == {0, 1000, 1500, 24000, 240000}

EyeContactScores == {NaN, 59, 60, 79, 80}

\* "um uh um uh"
FourFillers == <<"um", " ", "uh", " ", "um", " ", "uh">>

\* "I achieved great results and led the team to success"
AchievedAndLed ==
  <<"I", " ", "achieved", " ", "great", " ", "results", " ", "and", " ", "led",
    " ", "the", " ", "team", " ", "to", " ", "success">>

AnalyzeCall(transcript, duration, eyeContactScore, facesDetected) ==
  [transcript |-> transcript, duration |-> duration,
   eyeContactScore |-> eyeContactScore, facesDetected |-> facesDetected]

ScenarioInputs ==
  {AnalyzeCall(FourFillers, 1500, 79, 1), AnalyzeCall(AchievedAndLed, 4500, 85, 0)}

AnalyzeInputs ==
  [transcript : ShortTranscripts \cup LongTranscripts,
   duration : Durations,
   eyeContactScore : EyeContactScores,
   facesDetected : {0, 1}] \cup ScenarioInputs

InitAnalyze ==
  /\ sessionData = NewSession(0)
  /\ now = 0
  /\ msg = NoMsg
  /\ out = <<>>
  /\ phase = "New"
  /\ fragments = <<>>
  /\ analyzeCall \in {<<c>> : c \in AnalyzeInputs}
  /\ analyzeResult = <<>>
  /\ gazeCall = <<>>
  /\ gazeResult = <<>>
  /\ InitConns
  /\ InitClient

CallAnalyze ==
  /\ Len(analyzeResult) = 0
  /\ analyzeResult' = <<Analyze(analyzeCall[1])>>
  /\ UNCHANGED <<serverVars, analyzeCall, gazeVars, connVars, clientVars>>

NextAnalyze == CallAnalyze

SpecAnalyze == InitAnalyze /\ [][NextAnalyze]_vars

(***************************************************************************)
(* The gaze classifier of detectEyeContact (client).                       *)
(***************************************************************************)
Abs(n) == IF n < 0 THEN 0 - n ELSE n

\* 40 * Math.abs((start + size / 2) - frame / 2)
Offset40(start, size, frame) == 20 * Abs(2 * start + size - frame)

\* 40 * (frame * 0.15)
Tolerance40(frame) == 6 * frame

EyeContactScoreEitherAxis(box, videoWidth, videoHeight) ==
  LET xTolerance == Tolerance40(videoWidth)
      yTolerance == Tolerance40(videoHeight)
      xOffset == Offset40(box.x, box.width, videoWidth)
      yOffset == Offset40(box.y, box.height, videoHeight)
      score ==
        IF 2 * xOffset < xTolerance \/ 2 * yOffset < yTolerance THEN 90
        ELSE IF xOffset < xTolerance /\ yOffset < yTolerance THEN 75
        ELSE IF 2 * xOffset < 3 * xTolerance /\ 2 * yOffset < 3 * yTolerance
          THEN 60
        ELSE 40
  IN Max(0, Min(100, score))

EyeContactScoreSwapped(box, videoWidth, videoHeight) ==
  LET xTolerance == Tolerance40(videoWidth)
      yTolerance == Tolerance40(videoHeight)
      xOffset == Offset40(box.x, box.width, videoWidth)
      yOffset == Offset40(box.y, box.height, videoHeight)
      score ==
        IF 2 * xOffset < xTolerance /\ 2 * yOffset < yTolerance THEN 90
        ELSE IF xOffset < xTolerance /\ yOffset < yTolerance THEN 60
        ELSE IF 2 * xOffset < 3 * xTolerance /\ 2 * yOffset < 3 * yTolerance
          THEN 75
        ELSE 40
  IN Max(0, Min(100, score))

EyeContactScore(box, videoWidth, videoHeight) ==
  LET xTolerance == Tolerance40(videoWidth)
      yTolerance == Tolerance40(videoHeight)
      xOffset == Offset40(box.x, box.width, videoWidth)
      yOffset == Offset40(box.y, box.height, videoHeight)
      score ==
        IF 2 * xOffset < xTolerance /\ 2 * yOffset < yTolerance THEN 90
        ELSE IF xOffset < xTolerance /\ yOffset < yTolerance THEN 75
        ELSE IF 2 * xOffset < 3 * xTolerance /\ 2 * yOffset < 3 * yTolerance
          THEN 60
        ELSE 40
  IN Max(0, Min(100, score))

MaxCoord == 20

Frames == { <<40, 20>>, <<20, 20>> }

BoxSizes == { <<2, 2>>, <<3, 5>> }

GazeInputs ==
  {[box |-> [x |-> x, y |-> y, width |-> sz[1], height |-> sz[2]],
    videoWidth |-> fr[1], videoHeight |-> fr[2]] :
     x \in 0..MaxCoord, y \in 0..MaxCoord, sz \in BoxSizes, fr \in Frames}

InitGaze ==
  /\ sessionData = NewSession(0)
  /\ now = 0
  /\ msg = NoMsg
  /\ out = <<>>
  /\ phase = "New"
  /\ fragments = <<>>
  /\ analyzeCall = <<>>
  /\ analyzeResult = <<>>
  /\ gazeCall \in {<<c>> : c \in GazeInputs}
  /\ gazeResult = <<>>
  /\ InitConns
  /\ InitClient

CallEyeContactScore ==
  /\ Len(gazeResult) = 0
  /\ gazeResult' = <<EyeContactScore(gazeCall[1].box, gazeCall[1].videoWidth,
                                     gazeCall[1].videoHeight)>>
  /\ UNCHANGED <<serverVars, analyzeVars, gazeCall, connVars, clientVars>>

NextGaze == CallEyeContactScore

SpecGaze == InitGaze /\ [][NextGaze]_vars

(***************************************************************************)
(* Two connections to one server: wss.on('connection') runs once for each  *)
(* and every run has its own sessionData.                                  *)
(***************************************************************************)
ConnMessages ==
  {TranscriptMsg(<<"um">>), EyeContactMsg(90), FaceDetectedMsg, StartMsg,
   StopMsg, BadJsonMsg}

ConnsAfterShared(cs, c, m, t) == [d \in Conns |-> SessionAfter(cs[c], m, t)]

\* the handler of connection c writes the sessionData of its own closure
ConnsAfter(cs, c, m, t) == [cs EXCEPT ![c] = SessionAfter(cs[c], m, t)]

\* what a connection has been sent since its last start
HeardAfter(h, m) ==
  IF Throws(m) THEN h
  ELSE IF m.type = "transcript"
    THEN [h EXCEPT !.fragments = Append(@, m.transcript)]
  ELSE IF m.type = "eye_contact" THEN [h EXCEPT !.scores = Append(@, m.score)]
  ELSE IF m.type = "face_detected" THEN [h EXCEPT !.faces = @ + 1]
  ELSE IF m.type = "start" THEN NothingHeard
  ELSE h

ConnWithinBounds(c, m) ==
  /\ m.type = "transcript" => Len(heard[c].fragments) < MaxFrags
  /\ m.type = "eye_contact" => Len(heard[c].scores) < MaxScores
  /\ m.type = "face_detected" => heard[c].faces < MaxFaces

\* ws.on('message', ...) of connection c runs on m
OnConnMessage(c, m) ==
  /\ ConnWithinBounds(c, m)
  /\ conns' = ConnsAfter(conns, c, m, now)
  /\ heard' = [heard EXCEPT ![c] = HeardAfter(@, m)]
  /\ last' = [conn |-> c, msg |-> m, out |-> SentBy(conns[c], m, now)]
  /\ UNCHANGED <<serverVars, analyzeVars, gazeVars, clientVars>>

NextConns ==
  \/ \E c \in Conns, m \in ConnMessages : OnConnMessage(c, m)
  \/ Tick

SpecConns == Init /\ [][NextConns]_vars

(***************************************************************************)
(* One connection from its opening to its close: ws.on('close') only logs, *)
(* and no message event follows the close event of a socket.               *)
(***************************************************************************)
CloseEvent == Message("none", "close", "undefined", <<>>, Undefined)

SentOnCloseScores(sd, t) == <<FinalAnalysis(sd, Analyze(StopCall(sd, t)))>>

\* the messages ws.on('close', ...) sends
SentOnClose(sd, t) == <<>>

\* ws.on('message', ...) runs on m while the connection is open
OnOpenMessage(m) ==
  /\ msg # CloseEvent
  /\ OnMessage(m)

\* ws.on('close', ...) runs
OnClose ==
  /\ msg # CloseEvent
  /\ msg' = CloseEvent
  /\ out' = SentOnClose(sessionData, now)
  /\ analyzeCall' = <<>>
  /\ analyzeResult' = <<>>
  /\ UNCHANGED <<sessionData, now, phase, fragments, gazeVars, connVars,
                 clientVars>>

NextClose ==
  \/ \E m \in ConnMessages : OnOpenMessage(m)
  \/ OnClose
  \/ Tick

SpecClose == Init /\ [][NextClose]_vars

(***************************************************************************)
(* The client (React component) and the server on one connection.  wire    *)
(* holds the messages the client has sent and the server has not handled   *)
(* yet, in order.  tickLog is, for every face detection that ended while   *)
(* the current recording was on, whether it found a face and the score the *)
(* classifier gave (history variable).                                     *)
(***************************************************************************)
MaxWire == 2
MaxTicks == 2
MaxDetecting == 1

\* the frame of the video and the face boxes the detector may report
VideoFrame == <<40, 20>>

DetectedBoxes ==
  { [x |-> 19, y |-> 9, width |-> 2, height |-> 2],
    [x |-> 0, y |-> 0, width |-> 2, height |-> 2] }

Detections == {<<>>} \cup {<<b>> : b \in DetectedBoxes}

MaxFinals == 1

\* setupSpeechRecognition called in a render whose isRecording is rec: the
\* recognition object and its handlers are made once and never again
setupSpeechRecognition(sp, rec) ==
  IF sp.created THEN sp
  ELSE [sp EXCEPT !.created = TRUE, !.onendIsRecording = rec]

\* recognition.start() on a recognizer that has not ended throws
\* InvalidStateError
StartThrows(sp) == ~sp.isListening /\ sp.state # "idle"

\* startRecording: sets up and starts recognition, sends start and sets
\* isRecording; its awaits (1.5 s) let the socket drain first
StartRecording ==
  /\ ~client.isRecording
  /\ wire = <<>>
  /\ ~StartThrows(speech)
  /\ speech' = [setupSpeechRecognition(speech, client.isRecording) EXCEPT
                  !.state = IF speech.isListening THEN @ ELSE "starting",
                  !.lastSpeech = FALSE]
  /\ wire' = <<StartMsg>>
  /\ client' = [client EXCEPT !.isRecording = TRUE]
  /\ tickLog' = <<>>
  /\ spoken' = <<>>
  /\ UNCHANGED <<serverVars, analyzeVars, gazeVars, connVars>>

\* startRecording when recognition.start() throws: the catch block reports
\* the error, nothing is sent and isRecording stays false
StartRecordingThrows ==
  /\ ~client.isRecording
  /\ wire = <<>>
  /\ StartThrows(speech)
  /\ speech' = [setupSpeechRecognition(speech, client.isRecording) EXCEPT
                  !.lastSpeech = FALSE]
  /\ UNCHANGED <<serverVars, analyzeVars, gazeVars, connVars, client, wire,
                 tickLog, spoken>>

\* the 500 ms interval fires while isRecording: detectEyeContact runs up to
\* its await of detectAllFaces
SampleTick ==
  /\ client.isRecording
  /\ client.detecting < MaxDetecting
  /\ Len(tickLog) + client.detecting < MaxTicks
  /\ client' = [client EXCEPT !.detecting = @ + 1]
  /\ UNCHANGED <<serverVars, analyzeVars, gazeVars, connVars, wire, tickLog,
                 speech, spoken>>

\* what detectEyeContact sends once the detector has answered
EyeContactSends(detections) ==
  IF Len(detections) > 0
    THEN <<EyeContactMsg(EyeContactScore(detections[1], VideoFrame[1],
                                         VideoFrame[2]))>>
  ELSE <<>>

TickEntry(detections) ==
  IF Len(detections) > 0
    THEN [face |-> TRUE,
          score |-> EyeContactScore(detections[1], VideoFrame[1], VideoFrame[2])]
  ELSE [face |-> FALSE, score |-> 0]

\* detectAllFaces answers: the rest of detectEyeContact runs
DetectionDone(detections) ==
  /\ client.detecting > 0
  /\ Len(wire) + Len(EyeContactSends(detections)) <= MaxWire
  /\ client' = [client EXCEPT !.detecting = @ - 1]
  /\ wire' = wire \o EyeContactSends(detections)
  /\ tickLog' = IF client.isRecording THEN Append(tickLog, TickEntry(detections))
                ELSE tickLog
  /\ UNCHANGED <<serverVars, analyzeVars, gazeVars, connVars, speech, spoken>>

\* stopRecording: stops recognition if isListening, sends stop and clears
\* isRecording
StopRecording ==
  /\ client.isRecording
  /\ Len(wire) < MaxWire
  /\ speech' = IF speech.isListening
                 THEN [speech EXCEPT
                         !.state = IF @ = "on" THEN "stopping" ELSE @,
                         !.isListening = FALSE]
               ELSE speech
  /\ wire' = Append(wire, StopMsg)
  /\ client' = [client EXCEPT !.isRecording = FALSE]
  /\ UNCHANGED <<serverVars, analyzeVars, gazeVars, connVars, tickLog, spoken>>

\* recognition.onstart
OnStart ==
  /\ speech.state = "starting"
  /\ speech' = [speech EXCEPT !.state = "on", !.isListening = TRUE]
  /\ UNCHANGED <<serverVars, analyzeVars, gazeVars, connVars, client, wire,
                 tickLog, spoken>>

\* recognition.onspeechstart
OnSpeechStart ==
  /\ speech.state = "on"
  /\ ~speech.lastSpeech
  /\ speech' = [speech EXCEPT !.lastSpeech = TRUE]
  /\ UNCHANGED <<serverVars, analyzeVars, gazeVars, connVars, client, wire,
                 tickLog, spoken>>

\* the results the recognizer may report, one to an event
SpeechResults ==
  { [isFinal |-> TRUE, transcript |-> <<"um">>],
    [isFinal |-> TRUE, transcript |-> <<" ", "led">>],
    [isFinal |-> FALSE, transcript |-> <<"um">>] }

\* what recognition.onresult sends for the result r
ResultSends(r) ==
  IF r.isFinal THEN <<TranscriptMsg(Trim(r.transcript \o <<" ">>))>>
  ELSE IF r.transcript # <<>> THEN <<InterimMsg(r.transcript)>>
  ELSE <<>>

\* recognition.onresult: a started recognizer reports a result, also after
\* stop() and before its end event (the result for the audio captured so far)
OnResult(r) ==
  /\ speech.state \in {"on", "stopping"}
  /\ r.isFinal => Len(spoken) < MaxFinals
  /\ Len(wire) + Len(ResultSends(r)) <= MaxWire
  /\ wire' = wire \o ResultSends(r)
  /\ spoken' = IF r.isFinal THEN Append(spoken, Trim(r.transcript \o <<" ">>))
               ELSE spoken
  /\ speech' = [speech EXCEPT !.lastSpeech = TRUE]
  /\ UNCHANGED <<serverVars, analyzeVars, gazeVars, connVars, client, tickLog>>

\* recognition.onend: the recognizer has ended, after stop() or by itself;
\* the handler restarts it if the isRecording it closed over is true (the
\* recognizer has ended, so this start() does not throw)
OnEnd ==
  /\ speech.state \in {"on", "stopping"}
  /\ speech' = [speech EXCEPT
                  !.isListening = FALSE,
                  !.state = IF speech.onendIsRecording /\ speech.created
                              THEN "starting" ELSE "idle"]
  /\ UNCHANGED <<serverVars, analyzeVars, gazeVars, connVars, client, wire,
                 tickLog, spoken>>

\* the speech timeout checker (every 5 s while isRecording) finds that the
\* last speech was more than 10 s ago
SilenceCheck ==
  /\ client.isRecording
  /\ speech.lastSpeech
  /\ speech' = [speech EXCEPT
                  !.state = IF speech.created /\ speech.isListening /\ @ = "on"
                              THEN "stopping" ELSE @,
                  !.lastSpeech = FALSE]
  /\ UNCHANGED <<serverVars, analyzeVars, gazeVars, connVars, client, wire,
                 tickLog, spoken>>

\* the server's ws.on('message', ...) runs on the oldest message sent
ServerReceive ==
  /\ wire # <<>>
  /\ msg' = Head(wire)
  /\ wire' = Tail(wire)
  /\ sessionData' = SessionAfter(sessionData, Head(wire), now)
  /\ out' = SentBy(sessionData, Head(wire), now)
  /\ phase' = PhaseAfter(phase, Head(wire))
  /\ fragments' = FragmentsAfter(fragments, Head(wire))
  /\ analyzeCall' = CallsBy(sessionData, Head(wire), now)
  /\ analyzeResult' = ResultsBy(sessionData, Head(wire), now)
  /\ UNCHANGED <<now, gazeVars, connVars, client, tickLog, speech, spoken>>

NextSystem ==
  \/ StartRecording
  \/ StartRecordingThrows
  \/ SampleTick
  \/ \E detections \in Detections : DetectionDone(detections)
  \/ StopRecording
  \/ OnStart
  \/ OnSpeechStart
  \/ \E r \in SpeechResults : OnResult(r)
  \/ OnEnd
  \/ SilenceCheck
  \/ ServerReceive
  \/ Tick

SpecSystem == Init /\ [][NextSystem]_vars

\* the browser delivers the events it has queued and the server handles
\* what it was sent; nothing obliges the user to act or to speak
SpecSystemFair ==
  /\ SpecSystem
  /\ WF_vars(OnStart)
  /\ WF_vars(\E detections \in Detections : DetectionDone(detections))
  /\ WF_vars(ServerReceive)

(***************************************************************************)
(* Properties.                                                             *)
(*                                                                         *)
(* A step of Spec that leaves the clock alone and changes the state is a   *)
(* run of the message handler on msg' (Tick is the only other action).     *)
(***************************************************************************)
Handles(types) == now' = now /\ msg'.json = "object" /\ msg'.type \in types

RECURSIVE JoinWithSpaces(_)
JoinWithSpaces(fs) ==
  IF Len(fs) = 0 THEN <<>>
  ELSE IF Len(fs) = 1 THEN fs[1]
  ELSE fs[1] \o <<" ">> \o JoinWithSpaces(Tail(fs))

RECURSIVE SumSeq(_)
SumSeq(q) == IF q = <<>> THEN 0 ELSE Head(q) + SumSeq(Tail(q))

AfterStop == msg = StopMsg /\ Len(analyzeCall) = 1

\* C1: after the handler has run on a start message the session is fully
\* reset (empty transcript, no eye-contact scores, no faces, startTime the
\* current time), whatever state the earlier messages left.
C1_StartResetsSession ==
  [][Handles({"start"}) =>
       /\ sessionData'.transcript = <<>>
       /\ sessionData'.eyeContactScores = <<>>
       /\ sessionData'.facesDetected = 0
       /\ sessionData'.startTime = now]_vars

C1_Witness ==
  /\ msg = StartMsg
  /\ phase = "Active"
  /\ now > 0
  /\ sessionData = NewSession(now)

\* C2: a handled stop message is answered by exactly one message, a
\* final_analysis, and the transcript passed to the scorer is made of the
\* fragments received since the last start (none from before it), in arrival
\* order, separated by single spaces; the code puts one more space in front
\* of the first fragment, which the transcript of the response has trimmed.
C2_StopScoresSessionFragments ==
  AfterStop =>
    /\ Len(out) = 1
    /\ out[1].type = "final_analysis"
    /\ analyzeCall[1].transcript =
         IF fragments = <<>> THEN <<>>
         ELSE <<" ">> \o JoinWithSpaces(fragments)

C2_Witness ==
  /\ AfterStop
  /\ sessionData.startTime > 0
  /\ Len(fragments) = 2
  /\ fragments[1] = <<"um">>
  /\ fragments[2] = <<"led", ",", " ", "Um">>

\* C3: for a positive duration the score analyzeTranscript returns is an
\* integer from 1 to 10.
C3_ScoreInRange ==
  (Len(analyzeResult) = 1 /\ analyzeCall[1].duration > 0) =>
    analyzeResult[1].score \in 1..10

C3_Witness ==
  /\ Len(analyzeResult) = 1
  /\ analyzeCall[1].duration > 0
  /\ analyzeResult[1].score = 10
  /\ analyzeResult[1].metrics.fillerWords = 0
  /\ analyzeResult[1].metrics.actionVerbs >= 3
  /\ analyzeResult[1].metrics.totalWords = 50
  /\ analyzeResult[1].metrics.wordsPerMinute = 125
  /\ analyzeResult[1].metrics.eyeContactScore = 80

\* C4: the score is min(10, 6 + filler + pace + gaze + length + verbs) with
\* the five deltas read off the filler count, the words per minute, the
\* average gaze score, the word count and the action-verb count.
C4_ScoreFormula ==
  Len(analyzeResult) = 1 =>
    LET m == analyzeResult[1].metrics
        f == m.fillerWords
        w == m.wordsPerMinute
        g == m.eyeContactScore
        n == m.totalWords
        v == m.actionVerbs
        filler == IF f = 0 THEN 2 ELSE IF 1 <= f /\ f <= 2 THEN 1 ELSE 0
        pace == IF w # Infinity /\ 120 <= w /\ w <= 150 THEN 1 ELSE 0
        gaze == IF g # NaN /\ g >= 80 THEN 2
                ELSE IF g # NaN /\ 60 <= g /\ g < 80 THEN 1 ELSE 0
        length == IF 50 <= n /\ n <= 500 THEN 1 ELSE 0
        verbs == IF v >= 3 THEN 2 ELSE IF 0 < v /\ v < 3 THEN 1 ELSE 0
        sum == 6 + filler + pace + gaze + length + verbs
    IN analyzeResult[1].score = IF sum < 10 THEN sum ELSE 10

C4_Witness ==
  /\ Len(analyzeResult) = 1
  /\ analyzeResult[1].score = 9
  /\ analyzeResult[1].metrics.fillerWords = 2
  /\ analyzeResult[1].metrics.wordsPerMinute = 120
  /\ analyzeResult[1].metrics.eyeContactScore = 79
  /\ analyzeResult[1].metrics.totalWords < 50
  /\ analyzeResult[1].metrics.actionVerbs = 0

\* C5: the handler leaves the session data as it is and sends nothing when
\* it runs on an interim_transcript message, so the transcript a later stop
\* scores does not depend on the interim messages.
C5_InterimIgnored ==
  [][Handles({"interim_transcript"}) =>
       /\ sessionData' = sessionData
       /\ out' = <<>>
       /\ analyzeCall' = <<>>]_vars

C5_Witness ==
  /\ msg = InterimMsg(<<"um">>)
  /\ phase = "Active"
  /\ Len(fragments) > 0
  /\ sessionData.transcript = <<" ">> \o JoinWithSpaces(fragments)

\* C6: every malformed message (undecodable, of an unknown type, or of a
\* known type without its field or with a field of the wrong type) is
\* answered by an error message and leaves the session data unchanged.
C6_MalformedRejected ==
  [][(now' = now /\ msg' \in Malformed) =>
       /\ sessionData' = sessionData
       /\ Len(out') = 1
       /\ out'[1].type = "error"]_vars

\* C7: from a handled stop to the next start the transcript, eye_contact
\* and face_detected messages leave the session data unchanged.
C7_StoppedSessionFrozen ==
  [][(phase = "Stopped"
        /\ Handles({"transcript", "eye_contact", "face_detected"})) =>
       sessionData' = sessionData]_vars

\* C8: the handler leaves the session data unchanged when it runs on a stop
\* message, and a stop that directly follows a stop scores the same
\* transcript and the same average eye-contact score.
C8_StopKeepsSession ==
  [][Handles({"stop"}) =>
       /\ sessionData' = sessionData
       /\ AfterStop =>
            /\ analyzeCall'[1].transcript = analyzeCall[1].transcript
            /\ analyzeCall'[1].eyeContactScore = analyzeCall[1].eyeContactScore
            /\ analyzeCall'[1].facesDetected = analyzeCall[1].facesDetected]_vars

C8_Witness ==
  /\ AfterStop
  /\ analyzeCall[1].duration > 0
  /\ sessionData.transcript # <<>>
  /\ sessionData.eyeContactScores = <<90>>
  /\ sessionData.facesDetected = 1
  /\ sessionData.startTime = 0

\* C9: the average eye-contact score passed to the scorer at a stop is the
\* integer nearest to the mean of the scores recorded since the last start
\* (a half rounds up), and it is 0 when none was recorded.
C9_AverageEyeContact ==
  AfterStop =>
    LET scores == sessionData.eyeContactScores
        avg == analyzeCall[1].eyeContactScore
        n == Len(scores)
    IN /\ n = 0 => avg = 0
       /\ (n > 0 /\ \A i \in 1..n : scores[i] # Undefined) =>
            /\ avg # NaN
            /\ (2 * avg - 1) * n <= 2 * SumSeq(scores)
            /\ 2 * SumSeq(scores) < (2 * avg + 1) * n

C9_Witness ==
  /\ AfterStop
  /\ sessionData.eyeContactScores = <<75, 90>>
  /\ analyzeCall[1].eyeContactScore = 83

C9_WitnessNoSample ==
  /\ AfterStop
  /\ phase = "Stopped"
  /\ sessionData.eyeContactScores = <<>>
  /\ fragments # <<>>
  /\ analyzeCall[1].eyeContactScore = 0

\* C10: the gaze classifier gives 90 when dx < 0.5 tx and dy < 0.5 ty,
\* otherwise 75 when dx < tx and dy < ty, otherwise 60 when dx < 1.5 tx and
\* dy < 1.5 ty, otherwise 40 (dx, dy the distances of the face centre from
\* the frame centre, tx and ty 0.15 of the frame's width and height); the
\* result is one of 40, 60, 75, 90.
C10_GazeClassifier ==
  Len(gazeResult) = 1 =>
    LET c == gazeCall[1]
        \* 2 dx and 2 dy
        dx2 == Abs(2 * c.box.x + c.box.width - c.videoWidth)
        dy2 == Abs(2 * c.box.y + c.box.height - c.videoHeight)
        \* 20 tx and 20 ty
        tx20 == 3 * c.videoWidth
        ty20 == 3 * c.videoHeight
        \* dx < k/2 tx and dy < k/2 ty
        Within(k) == 20 * dx2 < k * tx20 /\ 20 * dy2 < k * ty20
    IN /\ gazeResult[1] =
            IF Within(1) THEN 90
            ELSE IF Within(2) THEN 75
            ELSE IF Within(3) THEN 60
            ELSE 40
       /\ gazeResult[1] \in {40, 60, 75, 90}
       /\ 0 <= gazeResult[1] /\ gazeResult[1] <= 100

C10_Witness ==
  /\ Len(gazeResult) = 1
  /\ gazeResult[1] = 75
  /\ 20 * Abs(2 * gazeCall[1].box.x + gazeCall[1].box.width
                - gazeCall[1].videoWidth) < 3 * gazeCall[1].videoWidth
  /\ 20 * Abs(2 * gazeCall[1].box.y + gazeCall[1].box.height
                - gazeCall[1].videoHeight) >= 3 * gazeCall[1].videoHeight

\* C11: of two face positions in one frame, the one with the strictly
\* smaller max(dx/tx, dy/ty) never gets the lower score.
GazeRatio(c) ==
  Max(Abs(2 * c.box.x + c.box.width - c.videoWidth) * c.videoHeight,
      Abs(2 * c.box.y + c.box.height - c.videoHeight) * c.videoWidth)

SameFrame(c, d) ==
  c.videoWidth = d.videoWidth /\ c.videoHeight = d.videoHeight

C11_GazeMonotonic ==
  Len(gazeResult) = 1 =>
    \A d \in GazeInputs :
      (SameFrame(gazeCall[1], d) /\ GazeRatio(d) < GazeRatio(gazeCall[1])) =>
        EyeContactScore(d.box, d.videoWidth, d.videoHeight) >= gazeResult[1]

C11_Witness ==
  /\ Len(gazeResult) = 1
  /\ gazeResult[1] = 60
  /\ \E d \in GazeInputs :
       /\ SameFrame(gazeCall[1], d)
       /\ GazeRatio(d) < GazeRatio(gazeCall[1])
       /\ d.box.width # gazeCall[1].box.width
       /\ EyeContactScore(d.box, d.videoWidth, d.videoHeight) = 75

\* C12: the suggestions analyzeTranscript returns hold no string twice and
\* come in rubric order: filler words, pace, gaze, length, action verbs.
RubricOf(id) ==
  CASE id \in {"NoFillerWords", "ReduceFillerWords", "TooManyFillerWords"} -> 1
    [] id \in {"PerfectPace", "TooSlowly", "TooFast"} -> 2
    [] id \in {"ExcellentEyeContact", "MoreEyeContact", "PoorEyeContact"} -> 3
    [] id \in {"TooShort", "TooLong", "GoodLength"} -> 4
    [] id \in {"GreatActionVerbs", "MoreActionVerbs", "IncludeActionVerbs"} -> 5

C12_SuggestionsDistinctInOrder ==
  Len(analyzeResult) = 1 =>
    LET s == analyzeResult[1].suggestions
    IN \A i, j \in 1..Len(s) :
         i < j => s[i] # s[j] /\ RubricOf(s[i].id) < RubricOf(s[j].id)

C12_Witness ==
  /\ Len(analyzeResult) = 1
  /\ Len(analyzeResult[1].suggestions) = 5
  /\ analyzeResult[1].suggestions[1].id = "ReduceFillerWords"
  /\ analyzeResult[1].suggestions[2].id = "TooFast"
  /\ analyzeResult[1].suggestions[5].id = "MoreActionVerbs"
  /\ analyzeResult[1].suggestions[1].n = analyzeResult[1].suggestions[5].n

\* C13 as claimed: every rubric appends one suggestion, so analyzeTranscript
\* always returns exactly five.
C13_AlwaysFiveSuggestions ==
  Len(analyzeResult) = 1 => Len(analyzeResult[1].suggestions) = 5

\* C13 as amended: the filler, gaze, length and action-verb rubrics append
\* one suggestion each; the pace rubric appends one, except when
\* 80 <= wpm < 120 or 150 < wpm <= 180, where it appends none; the result has
\* five suggestions, or four in that pace gap.
PaceGap(w) == (80 <= w /\ w < 120) \/ (150 < w /\ w <= 180)

C13_OneSuggestionPerRubricButPaceGap ==
  Len(analyzeResult) = 1 =>
    LET s == analyzeResult[1].suggestions
        w == analyzeResult[1].metrics.wordsPerMinute
        Of(r) == {i \in 1..Len(s) : RubricOf(s[i].id) = r}
    IN /\ \A r \in {1, 3, 4, 5} : Cardinality(Of(r)) = 1
       /\ Cardinality(Of(2)) = IF PaceGap(w) THEN 0 ELSE 1
       /\ Len(s) = IF PaceGap(w) THEN 4 ELSE 5

C13_Witness ==
  /\ Len(analyzeResult) = 1
  /\ analyzeResult[1].metrics.wordsPerMinute = 80
  /\ Len(analyzeResult[1].suggestions) = 4
  /\ analyzeResult[1].suggestions[2].id = "PoorEyeContact"

\* C14: the filler count f is the number of case-insensitive whole-word
\* occurrences of um, uh, like, you know, basically, actually, literally;
\* f = 0 gives the "no filler words" suggestion and +2, 1 <= f <= 2 gives +1,
\* f > 2 gives +0 and a suggestion that reports f ("um uh um uh": f = 4).
FillerForms == {"um", "Um", "uh", "like", "basically", "actually", "literally"}

\* position i holds a whole word: a word token between non-word neighbours
WholeWordAt(s, i) ==
  /\ IsWordTok(s[i])
  /\ (i = 1 \/ ~IsWordTok(s[i - 1]))
  /\ (i = Len(s) \/ ~IsWordTok(s[i + 1]))

YouKnowAt(s, i) ==
  /\ i + 2 <= Len(s)
  /\ s[i] = "you" /\ s[i + 1] = " " /\ s[i + 2] = "know"
  /\ (i = 1 \/ ~IsWordTok(s[i - 1]))
  /\ (i + 2 = Len(s) \/ ~IsWordTok(s[i + 3]))

WholeWordFillers(s) ==
  Cardinality({i \in 1..Len(s) : WholeWordAt(s, i) /\ s[i] \in FillerForms})
    + Cardinality({i \in 1..Len(s) : YouKnowAt(s, i)})

C14_FillerRubric ==
  Len(analyzeResult) = 1 =>
    LET r == analyzeResult[1]
        f == WholeWordFillers(analyzeCall[1].transcript)
        delta == IF f = 0 THEN 2 ELSE IF f <= 2 THEN 1 ELSE 0
    IN /\ r.metrics.fillerWords = f
       /\ r.suggestions[1] =
            IF f = 0 THEN Suggestion("NoFillerWords", 0)
            ELSE IF f <= 2 THEN Suggestion("ReduceFillerWords", f)
            ELSE Suggestion("TooManyFillerWords", f)
       /\ r.score =
            Min(10, 6 + delta + PaceDelta(r.metrics.wordsPerMinute)
                      + GazeDelta(r.metrics.eyeContactScore)
                      + LengthDelta(r.metrics.totalWords)
                      + VerbDelta(r.metrics.actionVerbs))

C14_Witness ==
  /\ Len(analyzeResult) = 1
  /\ analyzeCall[1].transcript = FourFillers
  /\ analyzeResult[1].metrics.fillerWords = 4
  /\ analyzeResult[1].suggestions[1] = Suggestion("TooManyFillerWords", 4)
  /\ analyzeResult[1].score = 7

\* C15 as claimed: "I achieved great results and led the team to success",
\* 4.5 s, gaze 85: 9 words, 120 wpm (pace +1), no filler word (+2), 2 action
\* verbs (+1), short (+0), gaze +2, a sum of 13 and a final score of 10.
AchievedAndLedResult ==
  /\ Len(analyzeResult) = 1
  /\ analyzeCall[1] = AnalyzeCall(AchievedAndLed, 4500, 85, 0)

RubricSum(m) ==
  6 + FillerDelta(m.fillerWords) + PaceDelta(m.wordsPerMinute)
    + GazeDelta(m.eyeContactScore) + LengthDelta(m.totalWords)
    + VerbDelta(m.actionVerbs)

C15_ScenarioAsClaimed ==
  AchievedAndLedResult =>
    /\ analyzeResult[1].metrics.totalWords = 9
    /\ analyzeResult[1].metrics.wordsPerMinute = 120
    /\ analyzeResult[1].metrics.fillerWords = 0
    /\ analyzeResult[1].metrics.actionVerbs = 2
    /\ RubricSum(analyzeResult[1].metrics) = 13
    /\ analyzeResult[1].score = 10

\* C15 as amended: the sentence has 10 words, so wpm = round(10 / 0.075) = 133
\* (pace +1); no filler word (+2), 2 action verbs (+1), short (+0), gaze +2;
\* the sum is 12 and the final score 10.
C15_Scenario ==
  AchievedAndLedResult =>
    /\ analyzeResult[1].metrics.totalWords = 10
    /\ analyzeResult[1].metrics.wordsPerMinute = 133
    /\ analyzeResult[1].metrics.fillerWords = 0
    /\ analyzeResult[1].metrics.actionVerbs = 2
    /\ analyzeResult[1].suggestions =
         << Suggestion("NoFillerWords", 0), Suggestion("PerfectPace", 133),
            Suggestion("ExcellentEyeContact", 0), Suggestion("TooShort", 0),
            Suggestion("MoreActionVerbs", 2) >>
    /\ RubricSum(analyzeResult[1].metrics) = 12
    /\ analyzeResult[1].score = 10

C15_Witness ==
  /\ AchievedAndLedResult
  /\ analyzeResult[1].metrics.totalWords = 10
  /\ analyzeResult[1].score = 10

\* C16: the duration the stop branch passes to analyzeTranscript is greater
\* than 0, also when the stop is handled at the clock reading of the start
\* or of the connection's opening, so wordsPerMinute is finite.
C16_DurationPositive ==
  AfterStop =>
    /\ analyzeCall[1].duration > 0
    /\ analyzeResult[1].metrics.wordsPerMinute # Infinity

\* C18: handling a transcript message and an eye_contact message in either
\* order leaves the same session data, and so the same transcript and
\* average eye-contact score at the next stop.
C18_GazeAndTranscriptCommute ==
  \A f \in Fragments, n \in GazeScores :
    LET gazeLast ==
          SessionAfter(SessionAfter(sessionData, TranscriptMsg(f), now),
                       EyeContactMsg(n), now)
        gazeFirst ==
          SessionAfter(SessionAfter(sessionData, EyeContactMsg(n), now),
                       TranscriptMsg(f), now)
    IN /\ gazeLast = gazeFirst
       /\ gazeLast.transcript = sessionData.transcript \o <<" ">> \o f
       /\ gazeLast.eyeContactScores = Append(sessionData.eyeContactScores, n)

C18_Witness ==
  /\ msg = EyeContactMsg(75)
  /\ phase = "Active"
  /\ Len(fragments) = 1
  /\ sessionData.eyeContactScores = <<90, 75>>

\* C17: a message handled on one connection leaves the session data of the
\* other connection unchanged, and the final_analysis of a connection is
\* computed from what that connection itself was sent since its last start.
OwnSession(c) ==
  /\ conns[c].transcript =
       IF heard[c].fragments = <<>> THEN <<>>
       ELSE <<" ">> \o JoinWithSpaces(heard[c].fragments)
  /\ conns[c].eyeContactScores = heard[c].scores
  /\ conns[c].facesDetected = heard[c].faces

OwnAnalysis ==
  (last.msg = StopMsg /\ Len(last.out) = 1) =>
    /\ last.out[1].type = "final_analysis"
    /\ last.out[1].transcript = JoinWithSpaces(heard[last.conn].fragments)
    /\ last.out[1].metrics.totalWords = Len(heard[last.conn].fragments) + 1
    /\ last.out[1].metrics.fillerWords = Len(heard[last.conn].fragments)
    /\ last.out[1].metrics.facesDetected = heard[last.conn].faces
    /\ last.out[1].metrics.eyeContactScore =
         IF heard[last.conn].scores = <<>> THEN 0 ELSE 90

C17_ConnectionsIsolated ==
  /\ [][\A d \in Conns \ {last'.conn} : conns'[d] = conns[d]]_vars
  /\ [](\A c \in Conns : OwnSession(c))
  /\ []OwnAnalysis

C17_Witness ==
  /\ last.conn = "a"
  /\ last.msg = StopMsg
  /\ Len(heard["a"].fragments) = 2
  /\ heard["a"].scores = <<>>
  /\ heard["b"].fragments = <<>>
  /\ heard["b"].scores = <<90>>
  /\ heard["b"].faces = 1
  /\ conns["b"].startTime > conns["a"].startTime
  /\ last.out[1].metrics.eyeContactScore = 0

\* the server has answered the stop of the latest recording and the client
\* has sent nothing since
RecordingScored ==
  /\ AfterStop
  /\ ~client.isRecording
  /\ wire = <<>>

\* C19: at stop the session's face-detection count is the number of
\* sampling ticks since the start on which the client detected a face.
C19_FacesCounted ==
  RecordingScored =>
    analyzeCall[1].facesDetected =
      Cardinality({i \in 1..Len(tickLog) : tickLog[i].face})

\* C20: every sampling tick of the recording has put exactly one entry into
\* the session's gaze scores, the classifier's score when a face was
\* detected and 0 when none was.
C20_OneGazeScorePerTick ==
  RecordingScored =>
    /\ Len(sessionData.eyeContactScores) = Len(tickLog)
    /\ \A i \in 1..Len(tickLog) :
         sessionData.eyeContactScores[i] = tickLog[i].score


\* the words of a string: its maximal runs of non-whitespace characters
CountWords(s) ==
  Cardinality({i \in 1..Len(s) : ~IsSpace(s[i]) /\ (i = 1 \/ IsSpace(s[i - 1]))})

\* what the handler makes of the fragments fs received since a start
SessionTranscript(fs) ==
  IF fs = <<>> THEN <<>> ELSE <<" ">> \o JoinWithSpaces(fs)

\* C23: a session stopped with no transcript fragment received since the
\* start is scored with totalWords = 1, and its length rubric gives the
\* "response too short" suggestion and adds nothing to the score.
C23_EmptyTranscriptOneWord ==
  (AfterStop /\ fragments = <<>>) =>
    LET r == analyzeResult[1]
    IN /\ analyzeCall[1].transcript = <<>>
       /\ r.metrics.totalWords = 1
       /\ out[1].metrics.totalWords = 1
       /\ \E i \in 1..Len(r.suggestions) :
            r.suggestions[i] = Suggestion("TooShort", 0)
       /\ \A i \in 1..Len(r.suggestions) :
            r.suggestions[i].id \notin {"GoodLength", "TooLong"}
       /\ r.score =
            Min(10, 6 + FillerDelta(r.metrics.fillerWords)
                      + PaceDelta(r.metrics.wordsPerMinute)
                      + GazeDelta(r.metrics.eyeContactScore)
                      + 0
                      + VerbDelta(r.metrics.actionVerbs))

C23_Witness ==
  /\ AfterStop
  /\ fragments = <<>>
  /\ sessionData.startTime > 0
  /\ sessionData.eyeContactScores = <<90>>
  /\ analyzeResult[1].metrics.totalWords = 1
  /\ analyzeResult[1].score = 10

\* C24: a transcript message with an empty fragment is answered by no error
\* and only appends a space to the session transcript, and wherever it came
\* among the fragments of the session the totalWords, the filler count and
\* the action-verb count of the stop are those of the session without it.
NonEmptyFragments(fs) == SelectSeq(fs, LAMBDA f : f # <<>>)

C24_EmptyFragmentNeutral ==
  /\ [][(now' = now /\ msg' = TranscriptMsg(<<>>)) =>
          /\ out' = <<>>
          /\ sessionData' =
               [sessionData EXCEPT !.transcript = @ \o <<" ">>]]_vars
  /\ [](AfterStop =>
          LET without == SessionTranscript(NonEmptyFragments(fragments))
              m == analyzeResult[1].metrics
          IN /\ m.totalWords = SplitLength(without)
             /\ m.fillerWords = CountLexicon(without, fillerWords, 1)
             /\ m.actionVerbs = CountLexicon(without, actionVerbs, 1))

\* C25: the score analyzeTranscript returns is at least 6 for every input:
\* the five rubric deltas are all non-negative, so the clamp never returns
\* its lower bound 1.
C25_ScoreAtLeastSix ==
  Len(analyzeResult) = 1 =>
    LET m == analyzeResult[1].metrics
    IN /\ analyzeResult[1].score >= 6
       /\ analyzeResult[1].score # 1
       /\ FillerDelta(m.fillerWords) >= 0
       /\ PaceDelta(m.wordsPerMinute) >= 0
       /\ GazeDelta(m.eyeContactScore) >= 0
       /\ LengthDelta(m.totalWords) >= 0
       /\ VerbDelta(m.actionVerbs) >= 0

C25_Witness ==
  /\ Len(analyzeResult) = 1
  /\ analyzeResult[1].score = 6
  /\ analyzeResult[1].metrics.fillerWords > 2
  /\ analyzeResult[1].metrics.wordsPerMinute = Infinity
  /\ analyzeResult[1].metrics.eyeContactScore = NaN
  /\ analyzeResult[1].metrics.totalWords < 50
  /\ analyzeResult[1].metrics.actionVerbs = 0

\* C26: when at least one non-empty fragment was received, the totalWords of
\* the stop is the number of whitespace-separated words in the received
\* fragments, which is the word count of the trimmed transcript returned in
\* the final_analysis.
C26_TotalWordsCountsWords ==
  (AfterStop /\ \E i \in 1..Len(fragments) : fragments[i] # <<>>) =>
    /\ analyzeResult[1].metrics.totalWords =
         SumSeq([i \in 1..Len(fragments) |-> CountWords(fragments[i])])
    /\ analyzeResult[1].metrics.totalWords = SplitLength(out[1].transcript)

\* C27: a stop handled on a connection that has received no start is
\* answered by one error message and no final_analysis, and no score is
\* computed.
C27_StopWithoutStartRejected ==
  [][(phase = "New" /\ Handles({"stop"})) =>
       /\ Len(out') = 1
       /\ out'[1].type = "error"
       /\ analyzeCall' = <<>>]_vars


\* C22: a final_analysis is sent only by the handler run on a stop message:
\* the close of the connection sends nothing and nothing is sent after it,
\* so a session whose connection closes before its stop is never scored.
C22_NoAnalysisWithoutStop ==
  /\ [](\A i \in 1..Len(out) : out[i].type = "final_analysis" => msg = StopMsg)
  /\ [][msg' = CloseEvent => out' = <<>> /\ analyzeCall' = <<>>]_vars
  /\ [][msg = CloseEvent => msg' = CloseEvent /\ sessionData' = sessionData]_vars

C22_Witness ==
  /\ msg = CloseEvent
  /\ phase = "Active"
  /\ now > 0
  /\ Len(fragments) = 2
  /\ sessionData.eyeContactScores = <<90>>
  /\ out = <<>>


\* C21: the client sends an eye_contact message only between the start and
\* the stop of a recording, also when the face detection that produces it
\* was started before the stop.
C21_GazeSentOnlyWhileRecording ==
  [][(Len(wire') = Len(wire) + 1 /\ wire'[Len(wire')].type = "eye_contact") =>
       client.isRecording]_vars

\* C28: a final fragment of the recognizer is sent only before the stop of
\* its recording, also the one recognition.stop() brings, so once the stop
\* is scored and the recognizer has ended the scored transcript holds every
\* final fragment the recognizer produced for the recording.
C28_FinalFragmentsScored ==
  /\ [][(Len(wire') = Len(wire) + 1 /\ wire'[Len(wire')].type = "transcript") =>
          client.isRecording]_vars
  /\ []((/\ AfterStop
         /\ ~client.isRecording
         /\ \A i \in 1..Len(wire) : wire[i] # StopMsg
         /\ speech.state = "idle") =>
          analyzeCall[1].transcript = SessionTranscript(spoken))

\* C29: when recognition has ended while the recording is in progress, it
\* is eventually started again.
C29_RecognitionRestarts ==
  [](client.isRecording /\ speech.created /\ speech.state = "idle" =>
       <>(speech.state \in {"starting", "on"}))

====
